---- MODULE Spec2Model ----
(***************************************************************************)
(* Order ingestion and order-history merge of the "Calling an API" sample  *)
(* server (Express handlers POST /api/orders and GET /api/orders, the      *)
(* in-memory cache ordersByUser and the fire-and-forget mirror to the      *)
(* Auth0 user_metadata.order_history field).                               *)
(*                                                                         *)
(* Two variants of server.js exist in the repository; they differ in how   *)
(* an order id is generated (uuidv4() against Math.random().toString(36)). *)
(* The variable `variant` says which one is running.                       *)
(*                                                                         *)
(* Encoding of JavaScript values:                                          *)
(*   ids          integers; 0 is the empty string "", NoId is undefined    *)
(*   created_at   milliseconds since the epoch (toISOString / new Date     *)
(*                round trip exactly); NoTime is undefined/unparseable     *)
(*   items        [kind, list]: kind "undefined", "notseq" or "seq"        *)
(*                                                                         *)
(* The variable `client` is one page of the browser client of the sample   *)
(* (app.js with the router of ui.js), or NoClient when no page is open.    *)
(***************************************************************************)
EXTENDS Integers, Sequences, FiniteSets, TLC

VARIABLES variant, now, nextId, ordersByUser, profile, mirrors, reads, last, client

vars == <<variant, now, nextId, ordersByUser, profile, mirrors, reads, last, client>>

----------------------------------------------------------------------------
(* Bounds of the model *)

\* seconds covered by the clock
MaxSec == 1
\* orders accepted in one run of the process
MaxOrders == 2
\* orders accepted in one run of the validation specification
MaxOrdersV == 1
\* requireAuth calls of a page that await isAuthenticated at once
MaxPending == 2
\* pizzas selected in a page
MaxQty == 1
\* requests a page sends to /api/orders, of each method
MaxRequests == 1
\* largest identifier Math.random().toString(36).slice(2, 9) yields here
MaxRandId == 1
\* GET /api/orders requests in flight at once
MaxReads == 1

(* Program constants *)

\* Math.floor(Date.now() / 1000)
MsPerSec == 1000
\* toLocaleTimeString with hour and minute only
MsPerMinute == 60000
\* toLocaleDateString with year, month and day only
MsPerDay == 86400000

----------------------------------------------------------------------------
(* Values *)

Subjects == {"u1", "u2"}
\* a missing or empty sub claim: falsy in JavaScript
NoSub == ""

NoId == -1
EmptyId == 0
NoTime == -1
NoDisplay == -1

CreateScope == "create:orders"
ReadScope == "read:orders"

EmailTrue == "bool:true"
EmailValues == {"bool:true", "bool:false", "undefined", "str:true"}

\* the instants the clock shows: each full second and the millisecond before it
ClockValues ==
  {s * MsPerSec : s \in 0..MaxSec} \cup {s * MsPerSec - 1 : s \in 1..MaxSec}

\* Math.floor(Date.now() / 1000)
NowEpoch(t) == t \div MsPerSec

ExpValues == 0..(MaxSec + 1)

Margherita == [name |-> "Margherita", quantity |-> 2]
Buffalo == [name |-> "Buffalo", quantity |-> 1]
\* an item the menu never offers: its quantity is not positive
ZeroQuantity == [name |-> "Margherita", quantity |-> 0]

UndefinedItems == [kind |-> "undefined", list |-> << >>]
NotSeqItems == [kind |-> "notseq", list |-> << >>]
SeqItems(l) == [kind |-> "seq", list |-> l]

\* Array.isArray(x)
IsArray(x) == x.kind = "seq"

NoRecord == [id |-> NoId, created_at |-> NoTime, date |-> NoDisplay,
             time |-> NoDisplay, items |-> UndefinedItems]

EmptyCache == [u \in Subjects |-> << >>]

----------------------------------------------------------------------------
(* Access tokens and request bodies *)

PermAbsent == [kind |-> "undefined", val |-> {}]
PermNull == [kind |-> "null", val |-> {}]
PermArray(s) == [kind |-> "array", val |-> s]
PermValues == {PermAbsent, PermNull, PermArray({}), PermArray({CreateScope})}

\* a bearer token that checkJwt rejects: req.auth is never set
NoToken == [verified |-> FALSE, sub |-> NoSub, exp |-> 0, scope |-> {},
            permissions |-> PermAbsent, email_verified |-> "undefined"]

Token(sub, exp, scope, perms, email) ==
  [verified |-> TRUE, sub |-> sub, exp |-> exp, scope |-> scope,
   permissions |-> perms, email_verified |-> email]

\* a token that passes every check of POST /api/orders and GET /api/orders
GoodToken(u) ==
  Token(u, MaxSec + 1, {CreateScope, ReadScope}, PermArray({CreateScope}), EmailTrue)

\* every token of the validation specification
AllTokens ==
  {NoToken} \cup
  {Token(sub, exp, scope, perms, email) :
     sub \in {"u1", NoSub}, exp \in ExpValues,
     scope \in {{}, {CreateScope}}, perms \in PermValues, email \in EmailValues}

\* the tokens of the main specification
MainTokens ==
  {GoodToken(u) : u \in Subjects} \cup
  {NoToken,
   Token(NoSub, MaxSec + 1, {CreateScope, ReadScope}, PermArray({CreateScope}), EmailTrue)}

NoBody == [hasOrder |-> FALSE, items |-> UndefinedItems]
OrderBody(items) == [hasOrder |-> TRUE, items |-> items]

AllBodies ==
  {NoBody, OrderBody(UndefinedItems), OrderBody(NotSeqItems),
   OrderBody(SeqItems(<< >>)), OrderBody(SeqItems(<<Margherita>>))}

MainBodies ==
  {OrderBody(NotSeqItems), OrderBody(SeqItems(<< >>)),
   OrderBody(SeqItems(<<Margherita>>))}

----------------------------------------------------------------------------
(* Order records and mirrored entries *)

\* now.toLocaleDateString('en-US', {year, month, day}): the day of t
LocaleDate(t) == t \div MsPerDay
\* now.toLocaleTimeString('en-US', {hour, minute}): the minute of the day of t
LocaleTime(t) == (t % MsPerDay) \div MsPerMinute

\* the enriched order record built by POST /api/orders
OrderRecord(id, t, items) ==
  [id |-> id, created_at |-> t, date |-> LocaleDate(t), time |-> LocaleTime(t),
   items |-> items]

\* an element of user_metadata.order_history as the Management API returns it
Entry(id, orderId, createdAt, date, time, items) ==
  [kind |-> "obj", id |-> id, order_id |-> orderId, created_at |-> createdAt,
   date |-> date, time |-> time, items |-> items]

NullEntry ==
  [kind |-> "null", id |-> NoId, order_id |-> NoId, created_at |-> NoTime,
   date |-> NoDisplay, time |-> NoDisplay, items |-> UndefinedItems]

\* an order record serialised into the PATCH body and read back
EntryOf(rec) == Entry(rec.id, NoId, rec.created_at, rec.date, rec.time, rec.items)

\* the order_history field of a user's profile
NoHistory == [kind |-> "undefined", list |-> << >>]
NotSeqHistory == [kind |-> "notseq", list |-> << >>]
SeqHistory(l) == [kind |-> "seq", list |-> l]

\* the fetched value used as it is, without the fallback
OrEmpty_Keep(h) == h

\* x || []
OrEmpty(h) == IF h.kind = "undefined" THEN SeqHistory(<< >>) ELSE h

\* what other writers of the Profile Store leave in order_history
ExternalHistories ==
  {SeqHistory(<<Entry(1, NoId, 0, 1, 1, SeqItems(<<Buffalo>>))>>),
   SeqHistory(<<Entry(NoId, 1, MsPerSec, NoDisplay, NoDisplay, UndefinedItems)>>),
   SeqHistory(<<Entry(NoId, 2, MsPerSec - 1, NoDisplay, NoDisplay, SeqItems(<<Buffalo>>)),
                Entry(3, NoId, 0, 0, 0, SeqItems(<<Margherita>>))>>)}

\* a mirrored entry that is a primitive value: every field read is undefined
PrimitiveEntry == Entry(NoId, NoId, NoTime, NoDisplay, NoDisplay, UndefinedItems)

\* order_history values that are malformed, or that no createOrder wrote
MalformedHistories ==
  {NotSeqHistory,
   SeqHistory(<<NullEntry>>),
   SeqHistory(<<PrimitiveEntry>>),
   SeqHistory(<<Entry(4, NoId, 0, 0, 0, SeqItems(<<Margherita>>)),
                Entry(5, NoId, NoTime, NoDisplay, NoDisplay, SeqItems(<< >>)),
                Entry(6, NoId, MsPerSec, 0, 0, SeqItems(<<Buffalo>>))>>),
   SeqHistory(<<Entry(7, NoId, 0, 0, 0, SeqItems(<<ZeroQuantity>>))>>),
   SeqHistory(<<Entry(NoId, 8, MsPerSec - 1, 0, 0, SeqItems(<<Buffalo>>)),
                Entry(9, NoId, 0, 0, 0, NotSeqItems)>>)}

\* the order_history values of the read specification
ReadHistories == ExternalHistories \cup MalformedHistories \cup {SeqHistory(<< >>)}

----------------------------------------------------------------------------
(* The response being sent, with the request it answers *)

NoResponse ==
  [op |-> "none", token |-> NoToken, body |-> NoBody, at |-> 0,
   status |-> 0, message |-> "", order |-> NoRecord, before |-> EmptyCache,
   local |-> << >>, fetched |-> SeqHistory(<< >>), fetch |-> "none",
   orders |-> << >>]

Idle == last.op = "none"

Response(status, message) == [status |-> status, message |-> message]

----------------------------------------------------------------------------
(* POST /api/orders *)

\* exp < nowEpoch
Expired(exp, nowEpoch) == exp < nowEpoch

\* permissions.includes('create:orders') throws unless permissions is an array
IncludesThrows(perms) == perms.kind = "null"

\* a permission check that accepts any token
HasPermission_Any(perms, p) == TRUE

\* permissions.includes('create:orders'), permissions = [] when undefined
HasPermission(perms, p) == perms.kind = "array" /\ p \in perms.val

\* a truthiness test, !emailVerified, in place of the strict comparison
EmailNotVerified_Falsy(ev) == ev \in {"bool:false", "undefined"}

\* emailVerified !== true
EmailNotVerified(ev) == ev # EmailTrue

\* a write path that also rejects an empty items array
BadOrderBody_RejectEmpty(body) ==
  ~body.hasOrder \/ ~IsArray(body.items) \/ body.items.list = << >>

\* !order || !Array.isArray(order.items)
BadOrderBody(body) == ~body.hasOrder \/ ~IsArray(body.items)

\* checkJwt, requiredScopes('create:orders'), then the handler's checks in order
CreateStatus(tok, body, t) ==
  IF ~tok.verified THEN Response(401, "Unauthorized")
  ELSE IF CreateScope \notin tok.scope THEN Response(403, "Insufficient Scope")
  ELSE IF tok.sub = NoSub THEN Response(401, "Token missing subject (sub)")
  ELSE IF Expired(tok.exp, NowEpoch(t)) THEN Response(401, "Access token has expired")
  ELSE IF IncludesThrows(tok.permissions)
    THEN Response(500, "Cannot read properties of null (reading 'includes')")
  ELSE IF ~HasPermission(tok.permissions, CreateScope)
    THEN Response(403, "Missing create:orders permission")
  ELSE IF EmailNotVerified(tok.email_verified)
    THEN Response(403, "Email must be verified before placing an order.")
  ELSE IF BadOrderBody(body) THEN Response(400, "Order must include an items array")
  ELSE Response(200, "")

\* the record stored before the body is validated
StoresOrder_BeforeBodyCheck(tok, body, t) ==
  CreateStatus(tok, body, t).status \in {200, 400}

\* the handler reaches the statements that build and store the record
StoresOrder(tok, body, t) == CreateStatus(tok, body, t).status = 200

\* uuidv4() in one variant, Math.random().toString(36).slice(2, 9) in the other
NewIds == IF variant = "uuid" THEN {nextId} ELSE 0..MaxRandId

\* a store that forgets the subject's earlier records
CacheAppend_Overwrite(cache, sub, rec) == [cache EXCEPT ![sub] = <<rec>>]

\* ordersByUser[sub] = [...(ordersByUser[sub] || []), orderRecord]
CacheAppend(cache, sub, rec) == [cache EXCEPT ![sub] = Append(@, rec)]

\* appendOrderToUserMetadata(sub, orderRecord) as it starts
MirrorTask(sub, rec) ==
  [sub |-> sub, order |-> rec, pc |-> "token", existing |-> << >>]

CreateResponse(tok, body, out, rec) ==
  [NoResponse EXCEPT !.op = "create", !.token = tok, !.body = body, !.at = now,
                     !.status = out.status, !.message = out.message,
                     !.order = rec, !.before = ordersByUser]

CreateOrder(tok, body, cap) ==
  /\ Idle
  /\ LET out == CreateStatus(tok, body, now) IN
       IF StoresOrder(tok, body, now)
       THEN /\ nextId <= cap
            /\ \E id \in NewIds :
                 LET rec == OrderRecord(id, now, body.items) IN
                   /\ ordersByUser' = CacheAppend(ordersByUser, tok.sub, rec)
                   /\ mirrors' = Append(mirrors, MirrorTask(tok.sub, rec))
                   /\ last' = CreateResponse(tok, body, out, rec)
            /\ nextId' = nextId + 1
       ELSE /\ last' = CreateResponse(tok, body, out, NoRecord)
            /\ UNCHANGED <<ordersByUser, mirrors, nextId>>
  /\ UNCHANGED <<client, variant, now, profile, reads>>

\* res.json(...) ends the request
Deliver ==
  /\ ~Idle
  /\ last' = NoResponse
  /\ UNCHANGED <<client, variant, now, nextId, ordersByUser, profile, mirrors, reads>>

----------------------------------------------------------------------------
(* appendOrderToUserMetadata: one step per await *)

SetMirror(i, pc, existing) ==
  mirrors' = [mirrors EXCEPT ![i] = [@ EXCEPT !.pc = pc, !.existing = existing]]

\* a catch block that takes the order back out of the cache
MirrorCatch_Rollback(cache, sub, rec) ==
  [cache EXCEPT ![sub] = SelectSeq(@, LAMBDA o : o # rec)]

\* catch (err) { console.error(...) }: the failure is logged and nothing else
MirrorCatch(cache, sub, rec) == cache

\* a catch block that starts the mirror-append again
MirrorFails_Retry(i) ==
  /\ SetMirror(i, "token", << >>)
  /\ ordersByUser' = MirrorCatch(ordersByUser, mirrors[i].sub, mirrors[i].order)
  /\ UNCHANGED profile

\* the step of appendOrderToUserMetadata that fails
MirrorFails(i) ==
  /\ SetMirror(i, "failed", << >>)
  /\ ordersByUser' = MirrorCatch(ordersByUser, mirrors[i].sub, mirrors[i].order)
  /\ UNCHANGED profile

\* await getMgmtToken()
MirrorToken(i, ok) ==
  /\ Idle
  /\ mirrors[i].pc = "token"
  /\ IF ok
     THEN SetMirror(i, "get", << >>) /\ UNCHANGED <<ordersByUser, profile>>
     ELSE MirrorFails(i)
  /\ UNCHANGED <<client, variant, now, nextId, reads, last>>

\* await axios.get(...); existingOrders = ... || []; [...existingOrders, order]
MirrorGet(i, ok) ==
  /\ Idle
  /\ mirrors[i].pc = "get"
  /\ LET h == OrEmpty(profile[mirrors[i].sub]) IN
       IF ok /\ h.kind = "seq"
       THEN /\ SetMirror(i, "patch", Append(h.list, EntryOf(mirrors[i].order)))
            /\ UNCHANGED <<ordersByUser, profile>>
       ELSE MirrorFails(i)
  /\ UNCHANGED <<client, variant, now, nextId, reads, last>>

\* a write that appends the order to whatever the profile holds by then
Patched_AppendOnly(prof, sub, updatedOrders) ==
  [prof EXCEPT ![sub] =
     SeqHistory(OrEmpty(@).list \o <<updatedOrders[Len(updatedOrders)]>>)]

\* the list the PATCH leaves in user_metadata.order_history
Patched(prof, sub, updatedOrders) == [prof EXCEPT ![sub] = SeqHistory(updatedOrders)]

\* await axios.patch(...)
MirrorPatch(i, ok) ==
  /\ Idle
  /\ mirrors[i].pc = "patch"
  /\ IF ok
     THEN /\ profile' = Patched(profile, mirrors[i].sub, mirrors[i].existing)
          /\ SetMirror(i, "done", << >>)
          /\ UNCHANGED ordersByUser
     ELSE MirrorFails(i)
  /\ UNCHANGED <<client, variant, now, nextId, reads, last>>

\* another writer of the Profile Store replaces the field
ExternalProfileWrite(u, h) ==
  /\ Idle
  /\ profile[u] # h
  /\ profile' = [profile EXCEPT ![u] = h]
  /\ UNCHANGED <<client, variant, now, nextId, ordersByUser, mirrors, reads, last>>

\* the process is restarted: const ordersByUser = {} again, and the requests
\* and mirror-appends in flight are gone; the Profile Store keeps its content
Restart ==
  /\ Idle
  /\ ordersByUser # EmptyCache \/ mirrors # << >> \/ reads # << >>
  /\ ordersByUser' = EmptyCache
  /\ mirrors' = << >>
  /\ reads' = << >>
  /\ UNCHANGED <<client, variant, now, nextId, profile, last>>

\* time passes
Tick ==
  /\ Idle
  /\ \E t \in ClockValues : t > now /\ now' = t
  /\ UNCHANGED <<client, variant, nextId, ordersByUser, profile, mirrors, reads, last>>

----------------------------------------------------------------------------
(* GET /api/orders *)

\* a missing subject answered as POST /api/orders answers it
ListStatus_Unauthorized(tok) ==
  IF ~tok.verified THEN Response(401, "Unauthorized")
  ELSE IF ReadScope \notin tok.scope THEN Response(403, "Insufficient Scope")
  ELSE IF tok.sub = NoSub THEN Response(401, "Token missing subject (sub)")
  ELSE Response(200, "")

\* checkJwt, requiredScopes('read:orders'), then if (!userId)
ListStatus(tok) ==
  IF ~tok.verified THEN Response(401, "Unauthorized")
  ELSE IF ReadScope \notin tok.scope THEN Response(403, "Insufficient Scope")
  ELSE IF tok.sub = NoSub THEN Response(400, "Missing user identifier in token")
  ELSE Response(200, "")

\* a cache that is one list for all subjects
LocalOrders_Shared(cache, userId) == cache["u1"] \o cache["u2"]

\* (ordersByUser[userId] || []).map(order => ({id, created_at, date, time, items}))
LocalOrders(cache, userId) ==
  [i \in DOMAIN cache[userId] |->
     [id |-> cache[userId][i].id, created_at |-> cache[userId][i].created_at,
      date |-> cache[userId][i].date, time |-> cache[userId][i].time,
      items |-> cache[userId][i].items]]

\* order.id || order.order_id
CoalesceId(e) == IF e.id > EmptyId THEN e.id ELSE e.order_id

\* normalizedOrder
Normalize(e) ==
  [id |-> CoalesceId(e), created_at |-> e.created_at, date |-> e.date,
   time |-> e.time, items |-> e.items]

\* mergedOrders.find(o => o.id === id)
Finds(merged, id) == \E i \in DOMAIN merged : merged[i].id = id

\* a merge that pushes every mirrored entry
MergeOne_NoDedupe(merged, e) == Append(merged, Normalize(e))

\* the body of auth0Orders.forEach
MergeOne(merged, e) ==
  IF Finds(merged, Normalize(e).id) THEN merged ELSE Append(merged, Normalize(e))

RECURSIVE MergeAll(_, _)
\* mergedOrders = [...localOrders]; auth0Orders.forEach(...)
MergeAll(merged, entries) ==
  IF entries = << >> THEN merged
  ELSE MergeAll(MergeOne(merged, Head(entries)), Tail(entries))

\* new Date(created_at) is a valid date
ValidDate(o) == o.created_at # NoTime

\* the comparator (a, b) => new Date(b.created_at) - new Date(a.created_at) is negative
NewerFirst(a, b) == b.created_at - a.created_at < 0

RECURSIVE InsertSorted(_, _)
\* x placed after every element the comparator does not put behind it
InsertSorted(sorted, x) ==
  IF sorted = << >> THEN <<x>>
  ELSE IF NewerFirst(x, Head(sorted)) THEN <<x>> \o sorted
  ELSE <<Head(sorted)>> \o InsertSorted(Tail(sorted), x)

RECURSIVE StableSort(_)
StableSort(s) ==
  IF s = << >> THEN << >>
  ELSE InsertSorted(StableSort(SubSeq(s, 1, Len(s) - 1)), s[Len(s)])

\* a sort applied to the cached list itself, in place
CacheAfterList_SortInPlace(cache, userId) == [cache EXCEPT ![userId] = StableSort(@)]

\* the handler works on copies ([...].map, [...localOrders], filter): the
\* cached list is read and never assigned to
CacheAfterList(cache, userId) == cache

Reorderings(s) ==
  {[i \in DOMAIN s |-> s[p[i]]] :
     p \in {q \in [DOMAIN s -> DOMAIN s] : \A i, j \in DOMAIN s : q[i] = q[j] => i = j}}

\* mergedOrders.sort(...): stable; with a NaN difference the comparator is
\* inconsistent and the resulting order is implementation-defined
SortOutcomes(merged) ==
  IF \A i \in DOMAIN merged : ValidDate(merged[i]) THEN {StableSort(merged)}
  ELSE Reorderings(merged)

\* a filter that only asks for an array
HasItems_AllowEmpty(o) == IsArray(o.items)

\* order.items && Array.isArray(order.items) && order.items.length > 0
HasItems(o) == IsArray(o.items) /\ Len(o.items.list) > 0

\* filteredOrders
Filtered(sorted) == SelectSeq(sorted, HasItems)

\* filteredOrders.reverse().map((order, index) => ...).reverse()
Numbered(filtered) ==
  [i \in DOMAIN filtered |->
     [id |-> filtered[i].id, created_at |-> filtered[i].created_at,
      date |-> filtered[i].date, time |-> filtered[i].time,
      items |-> filtered[i].items, order_number |-> Len(filtered) - i + 1]]

\* auth0Orders.forEach throws: not an array, or an element is null
MergeThrows(fetched) ==
  \/ ~IsArray(fetched)
  \/ \E i \in DOMAIN fetched.list : fetched.list[i].kind = "null"

\* err.message of the TypeError thrown by the merge
MergeError(fetched) ==
  IF ~IsArray(fetched) THEN "auth0Orders.forEach is not a function"
  ELSE "Cannot read properties of null (reading 'id')"

\* an inner catch block that passes the failure on to the outer one
FetchFailureThrows_Rethrow == TRUE

\* catch (err) { console.warn(...) }: auth0Orders stays [] and the handler goes on
FetchFailureThrows == FALSE

\* err.message of a failed call to the Management API
FetchError == "Request failed with status code 401"

\* every ordersWithNumbers the handler can produce
ListOutcomes(local, fetched) ==
  {Numbered(Filtered(s)) : s \in SortOutcomes(MergeAll(local, fetched.list))}

ListResponse(tok, out, local, fetched, fetch, orders) ==
  [NoResponse EXCEPT !.op = "list", !.token = tok, !.at = now,
                     !.status = out.status, !.message = out.message,
                     !.before = ordersByUser, !.local = local,
                     !.fetched = fetched, !.fetch = fetch, !.orders = orders]

\* the handler up to its first await
ListStart(tok) ==
  /\ Idle
  /\ LET out == ListStatus(tok) IN
       IF out.status = 200
       THEN /\ Len(reads) < MaxReads
            /\ reads' = Append(reads, [token |-> tok, pc |-> "token",
                                       local |-> LocalOrders(ordersByUser, tok.sub)])
            /\ UNCHANGED last
       ELSE /\ last' = ListResponse(tok, out, << >>, SeqHistory(<< >>), "none", << >>)
            /\ UNCHANGED reads
  /\ UNCHANGED <<client, variant, now, nextId, ordersByUser, profile, mirrors>>

Without(s, i) == SubSeq(s, 1, i - 1) \o SubSeq(s, i + 1, Len(s))

\* merge, sort, filter, number and res.json, or the catch block's 500
\* fetch says how the inner try ended: "ok", or the await that failed
ListFinish(i, fetched, fetch) ==
  /\ reads' = Without(reads, i)
  /\ ordersByUser' = CacheAfterList(ordersByUser, reads[i].token.sub)
  /\ IF fetch # "ok" /\ FetchFailureThrows
     THEN last' = ListResponse(reads[i].token, Response(500, FetchError),
                               reads[i].local, fetched, fetch, << >>)
     ELSE IF MergeThrows(fetched)
     THEN last' = ListResponse(reads[i].token, Response(500, MergeError(fetched)),
                               reads[i].local, fetched, fetch, << >>)
     ELSE \E orders \in ListOutcomes(reads[i].local, fetched) :
            last' = ListResponse(reads[i].token, Response(200, ""),
                                 reads[i].local, fetched, fetch, orders)

\* await getMgmtToken() inside the inner try
ListToken(i, ok) ==
  /\ Idle
  /\ reads[i].pc = "token"
  /\ IF ok
     THEN /\ reads' = [reads EXCEPT ![i].pc = "get"]
          /\ UNCHANGED <<last, ordersByUser>>
     ELSE ListFinish(i, SeqHistory(<< >>), "token")
  /\ UNCHANGED <<client, variant, now, nextId, profile, mirrors>>

\* await axios.get(...); auth0Orders = ... || []
ListGet(i, ok) ==
  /\ Idle
  /\ reads[i].pc = "get"
  /\ IF ok
     THEN ListFinish(i, OrEmpty(profile[reads[i].token.sub]), "ok")
     ELSE ListFinish(i, SeqHistory(<< >>), "get")
  /\ UNCHANGED <<client, variant, now, nextId, profile, mirrors>>

----------------------------------------------------------------------------
(* The browser client: one page of app.js with the router of ui.js *)

\* a missing targetUrl: undefined, falsy
NoUrl == ""

\* the keys of router in ui.js
RouterUrls == {"/", "/profile", "/login"}

\* a requireAuth call that awaits auth0Client.isAuthenticated()
Call(fn, targetUrl) == [fn |-> fn, targetUrl |-> targetUrl]

\* the last requireAuth call that went on after its await: what the identity
\* client reported and whether fn was run
NoCall == [fn |-> "none", targetUrl |-> NoUrl, auth |-> FALSE, ran |-> FALSE]

\* the last call of auth0Client.loginWithRedirect(options)
NoRedirect == [started |-> FALSE, appState |-> NoUrl]

\* no page is open
NoClient ==
  [phase |-> "closed", authenticated |-> FALSE, path |-> "/", query |-> "none",
   placeInGrid |-> FALSE, panel |-> "none", bodyListener |-> FALSE,
   helpers |-> FALSE, placeListener |-> FALSE, fetchOrders |-> FALSE,
   pending |-> << >>, redirect |-> NoRedirect, qty |-> 0, total |-> 0,
   posts |-> 0, fetches |-> 0, errors |-> FALSE, lastCall |-> NoCall]

\* a page as the browser hands it to window.onload; placeInGrid says whether
\* the markup puts the place-order button inside #pizza-grid
PageLoad(path, query, auth, inGrid) ==
  [NoClient EXCEPT !.phase = "onload", !.path = path, !.query = query,
                   !.authenticated = auth, !.placeInGrid = inGrid]

PageLoads ==
  {PageLoad(path, query, auth, inGrid) :
     path \in {"/", "/profile", "/missing"}, query \in {"none", "callback"},
     auth \in BOOLEAN, inGrid \in BOOLEAN}

\* the page is open and has not been left for the login page
PageAlive(c) == c.phase \in {"checking", "callback", "loaded"}

\* a guard that runs fn whatever the identity client reports
RunsFn_Always(isAuthenticated) == TRUE

\* if (isAuthenticated) { return fn(); }
RunsFn(isAuthenticated) == isAuthenticated

\* requireAuth(fn, targetUrl) up to its await
RequireAuth(c, fn, targetUrl) ==
  [c EXCEPT !.pending = Append(@, Call(fn, targetUrl))]

\* login(targetUrl): appState is set only for a truthy targetUrl; the page is
\* left when loginWithRedirect succeeds, and a failure is logged
Login(c, targetUrl, ok) ==
  [c EXCEPT !.redirect = [started |-> TRUE,
                          appState |-> IF targetUrl # NoUrl THEN targetUrl ELSE NoUrl],
            !.phase = IF ok THEN "left" ELSE @]

\* showContent(id)
ShowContent(c, id) == [c EXCEPT !.panel = id]

\* showContentFromUrl(url): router[url]() when the router has url
ShowContentFromUrl(c, url, ok) ==
  CASE url = "/" -> ShowContent(c, "content-home")
    [] url = "/profile" -> RequireAuth(c, "showProfile", "/profile")
    [] url = "/login" -> Login(c, NoUrl, ok)
    [] OTHER -> c

\* updateTotalPizzas(): a const of window.onload, in its temporal dead zone
\* (ReferenceError) until the declaration was evaluated
UpdateTotalPizzas(c) ==
  IF c.helpers THEN [c EXCEPT !.total = c.qty] ELSE [c EXCEPT !.errors = TRUE]

\* how the calls a handler awaits turn out: getTokenSilently or
\* loginWithRedirect fails, the server rejects the request, or all succeed
Outcomes == {"fails", "rejected", "ok"}

\* placeOrder(): a const of window.onload as well; no request without items
\* or without an access token; the quantities are reset after a 2xx answer
PlaceOrder(c, out) ==
  IF ~c.helpers THEN [c EXCEPT !.errors = TRUE]
  ELSE IF c.qty = 0 \/ out = "fails" THEN c
  ELSE IF out = "rejected" THEN [c EXCEPT !.posts = @ + 1]
  ELSE [c EXCEPT !.posts = @ + 1, !.qty = 0, !.total = 0]

\* window.fetchOrders && window.fetchOrders()
FetchOrders(c, out) ==
  IF ~c.fetchOrders \/ out = "fails" THEN c ELSE [c EXCEPT !.fetches = @ + 1]

\* fn() of a requireAuth call
RunFn(c, fn, out) ==
  CASE fn = "showProfile" -> ShowContent(c, "content-profile")
    [] fn = "placeOrder" -> PlaceOrder(c, out)
    [] fn = "fetchOrders" -> FetchOrders(c, out)

\* a step of the page
ClientStep(c) ==
  /\ Len(c.pending) <= MaxPending
  /\ c.qty <= MaxQty /\ c.posts <= MaxRequests /\ c.fetches <= MaxRequests
  /\ client' = c
  /\ UNCHANGED <<variant, now, nextId, ordersByUser, profile, mirrors, reads, last>>

\* window.onload up to await auth0Client.isAuthenticated()
OnloadConfigure(ok) ==
  /\ client.phase = "onload"
  /\ LET url == IF client.path \in RouterUrls THEN client.path ELSE "/"
         c == ShowContentFromUrl(client, url, ok) IN
       ClientStep([c EXCEPT !.bodyListener = TRUE, !.phase = "checking"])

\* window.onload after isAuthenticated: return after updateUI() when
\* authenticated; otherwise declare the helpers, attach the listeners, define
\* window.fetchOrders and go on to the redirect callback
OnloadCheck ==
  /\ client.phase = "checking"
  /\ IF client.authenticated
     THEN ClientStep([client EXCEPT !.phase = "loaded"])
     ELSE ClientStep([client EXCEPT
            !.helpers = TRUE, !.total = client.qty, !.placeListener = TRUE,
            !.fetchOrders = TRUE,
            !.phase = IF client.query = "callback" THEN "callback" ELSE "loaded"])

\* await auth0Client.handleRedirectCallback(), then updateUI()
OnloadCallback(ok, targetUrl) ==
  /\ client.phase = "callback"
  /\ IF ok
     THEN LET c == [client EXCEPT !.authenticated = TRUE, !.phase = "loaded"] IN
            ClientStep(IF targetUrl # NoUrl THEN ShowContentFromUrl(c, targetUrl, TRUE)
                       ELSE c)
     ELSE ClientStep([client EXCEPT !.phase = "loaded"])

\* requireAuth after its await: fn(), or login(targetUrl)
RequireAuthResolves(i, out) ==
  /\ PageAlive(client)
  /\ i \in DOMAIN client.pending
  /\ LET call == client.pending[i]
         c == [client EXCEPT
                 !.pending = SubSeq(@, 1, i - 1) \o SubSeq(@, i + 1, Len(@)),
                 !.lastCall = [fn |-> call.fn, targetUrl |-> call.targetUrl,
                               auth |-> client.authenticated,
                               ran |-> RunsFn(client.authenticated)]] IN
       IF RunsFn(client.authenticated)
       THEN ClientStep(RunFn(c, call.fn, out))
       ELSE ClientStep(Login(c, call.targetUrl, out # "fails"))

\* a click on a route link
ClickRoute(url, ok) ==
  /\ PageAlive(client) /\ client.bodyListener
  /\ ClientStep(ShowContentFromUrl(client, url, ok))

\* a click on a + or - button of #pizza-grid
ClickQuantity(step) ==
  /\ PageAlive(client) /\ client.bodyListener
  /\ LET val == IF client.qty + step < 0 THEN 0 ELSE client.qty + step IN
       ClientStep(UpdateTotalPizzas([client EXCEPT !.qty = val]))

\* a click on #place-order: the listener of body when the button is inside
\* #pizza-grid, and the listener attached to the button itself
ClickPlaceOrder ==
  /\ PageAlive(client)
  /\ LET c1 == IF client.bodyListener /\ client.placeInGrid
               THEN RequireAuth(client, "placeOrder", "/") ELSE client
         c2 == IF client.placeListener
               THEN RequireAuth(c1, "placeOrder", "/") ELSE c1 IN
       c2 # client /\ ClientStep(c2)

\* a click on #refresh-orders
ClickRefresh ==
  /\ PageAlive(client) /\ client.bodyListener
  /\ ClientStep(RequireAuth(client, "fetchOrders", "/order-history"))

----------------------------------------------------------------------------
(* Specifications *)

ServerStart(v) ==
  /\ variant = v
  /\ now \in ClockValues
  /\ nextId = 1
  /\ ordersByUser = EmptyCache
  /\ profile = [u \in Subjects |-> NoHistory]
  /\ mirrors = << >>
  /\ reads = << >>
  /\ last = NoResponse

\* the server, and no page of the client
Start(v) == ServerStart(v) /\ client = NoClient

\* the variant that calls uuidv4()
Init == Start("uuid")

\* the variant that calls Math.random()
InitRandom == Start("random")

\* ingestion, the mirror and reads, interleaved
Next ==
  \/ \E tok \in MainTokens, body \in MainBodies : CreateOrder(tok, body, MaxOrders)
  \/ Deliver
  \/ \E i \in DOMAIN mirrors, ok \in BOOLEAN : MirrorToken(i, ok)
  \/ \E i \in DOMAIN mirrors, ok \in BOOLEAN : MirrorGet(i, ok)
  \/ \E i \in DOMAIN mirrors, ok \in BOOLEAN : MirrorPatch(i, ok)
  \/ \E tok \in MainTokens : ListStart(tok)
  \/ \E i \in DOMAIN reads, ok \in BOOLEAN : ListToken(i, ok)
  \/ \E i \in DOMAIN reads, ok \in BOOLEAN : ListGet(i, ok)
  \/ Tick

Spec == Init /\ [][Next]_vars

\* ingestion and reads against a Profile Store that other writers fill
NextMerge ==
  \/ \E tok \in MainTokens, body \in MainBodies : CreateOrder(tok, body, MaxOrders)
  \/ Deliver
  \/ \E u \in Subjects, h \in ExternalHistories : ExternalProfileWrite(u, h)
  \/ \E tok \in MainTokens : ListStart(tok)
  \/ \E i \in DOMAIN reads, ok \in BOOLEAN : ListToken(i, ok)
  \/ \E i \in DOMAIN reads, ok \in BOOLEAN : ListGet(i, ok)
  \/ Tick

SpecMerge == Init /\ [][NextMerge]_vars

\* ingestion and reads of the Math.random() variant
NextRandom ==
  \/ \E tok \in MainTokens, body \in MainBodies : CreateOrder(tok, body, MaxOrders)
  \/ Deliver
  \/ \E tok \in MainTokens : ListStart(tok)
  \/ \E i \in DOMAIN reads, ok \in BOOLEAN : ListToken(i, ok)
  \/ \E i \in DOMAIN reads, ok \in BOOLEAN : ListGet(i, ok)
  \/ Tick

SpecRandom == InitRandom /\ [][NextRandom]_vars

\* the tokens of the read specification: one subject, and a token without sub
ReadTokens ==
  {GoodToken("u1"),
   Token(NoSub, MaxSec + 1, {CreateScope, ReadScope}, PermArray({CreateScope}), EmailTrue)}

\* reads of one subject against every order_history the Profile Store can hold
NextRead ==
  \/ \E tok \in ReadTokens, body \in MainBodies : CreateOrder(tok, body, MaxOrders)
  \/ Deliver
  \/ \E h \in ReadHistories : ExternalProfileWrite("u1", h)
  \/ Restart
  \/ \E tok \in ReadTokens : ListStart(tok)
  \/ \E i \in DOMAIN reads, ok \in BOOLEAN : ListToken(i, ok)
  \/ \E i \in DOMAIN reads, ok \in BOOLEAN : ListGet(i, ok)
  \/ Tick

SpecRead == Init /\ [][NextRead]_vars

\* a page of the client is loaded
InitClient == ServerStart("uuid") /\ client \in PageLoads

\* the page, its user and the identity client
NextClient ==
  \/ \E ok \in BOOLEAN : OnloadConfigure(ok)
  \/ OnloadCheck
  \/ \E ok \in BOOLEAN, targetUrl \in {NoUrl, "/", "/profile", "/order-history"} :
       OnloadCallback(ok, targetUrl)
  \/ \E i \in 1..MaxPending, out \in Outcomes : RequireAuthResolves(i, out)
  \/ \E url \in RouterUrls, ok \in BOOLEAN : ClickRoute(url, ok)
  \/ \E step \in {1, -1} : ClickQuantity(step)
  \/ ClickPlaceOrder
  \/ ClickRefresh

SpecClient == InitClient /\ [][NextClient]_vars

\* the validation of POST /api/orders over every token and body
NextV ==
  \/ \E tok \in AllTokens, body \in AllBodies : CreateOrder(tok, body, MaxOrdersV)
  \/ Deliver

SpecV == Init /\ [][NextV]_vars

----------------------------------------------------------------------------
(* Properties of order ingestion *)

IsPrefix(s, t) == Len(s) <= Len(t) /\ SubSeq(t, 1, Len(s)) = s

\* a step in which POST /api/orders answers
CreateAnswers == last.op = "none" /\ last'.op = "create"

\* every record held by the cache, with the place it is stored at
Stored == {<<u, i>> : u \in Subjects, i \in 1..MaxOrders}
Held == {p \in Stored : p[2] <= Len(ordersByUser[p[1]])}

\* C1: a POST /api/orders answered 200 appends exactly the returned record to
\* the end of the subject's list and touches no other list, and no step of
\* the server removes, replaces or reorders a stored record: each list before
\* a step is a prefix of the list after it.
C1_AppendOnly ==
  [][/\ \A u \in Subjects : IsPrefix(ordersByUser[u], ordersByUser'[u])
     /\ (CreateAnswers /\ last'.status = 200) =>
          /\ ordersByUser'[last'.token.sub]
               = Append(ordersByUser[last'.token.sub], last'.order)
          /\ \A u \in Subjects \ {last'.token.sub} :
               ordersByUser'[u] = ordersByUser[u]]_vars

\* C1: an order was accepted for a subject whose list already held a record
C1_Witness ==
  /\ last.op = "create"
  /\ last.status = 200
  /\ Len(last.before[last.token.sub]) >= 1
  /\ Len(ordersByUser[last.token.sub]) = Len(last.before[last.token.sub]) + 1

\* C2: the id of every created record is a non-empty identifier and differs
\* from the id of every record created earlier in the process lifetime.
C2_UniqueIds ==
  /\ \A p \in Held : ordersByUser[p[1]][p[2]].id > EmptyId
  /\ \A p, q \in Held :
       p # q => ordersByUser[p[1]][p[2]].id # ordersByUser[q[1]][q[2]].id

----------------------------------------------------------------------------
(* Properties of the validation sequence *)

ExpiredMessage == "Access token has expired"
PermissionMessage == "Missing create:orders permission"
ScopeMessage == "Insufficient Scope"
EmailMessage == "Email must be verified before placing an order."

\* POST /api/orders has answered and the response is being sent
Created == last.op = "create"

CacheUntouched == ordersByUser = last.before

\* the request's own record was appended, and nothing else changed
AppendedOne ==
  /\ last.token.sub \in Subjects
  /\ ordersByUser[last.token.sub] = Append(last.before[last.token.sub], last.order)
  /\ \A u \in Subjects \ {last.token.sub} : ordersByUser[u] = last.before[u]

\* the request got as far as the expiry check
ReachesExpiryCheck(tok) ==
  tok.verified /\ CreateScope \in tok.scope /\ tok.sub # NoSub

\* C3: a request that reaches the expiry check is rejected 401 as expired
\* whenever exp <= now, the boundary exp = now included, and goes on to the
\* later checks only when exp > now.
C3_ExpiryInclusive ==
  (Created /\ ReachesExpiryCheck(last.token)) =>
    (last.token.exp <= NowEpoch(last.at)
       <=> (last.status = 401 /\ last.message = ExpiredMessage))

\* the create-orders capability, as the scope claim and as the permissions claim
LacksScope(tok) == CreateScope \notin tok.scope
LacksPermission(tok) ==
  tok.permissions.kind \in {"undefined", "array"} /\ CreateScope \notin tok.permissions.val
LacksCapability(tok) == LacksScope(tok) \/ LacksPermission(tok)

\* the checks of the validation sequence, in the order the claim gives them
FailsCheck(k, tok, body, t) ==
  CASE k = 1 -> ~tok.verified
    [] k = 2 -> tok.sub = NoSub
    [] k = 3 -> tok.exp <= NowEpoch(t)
    [] k = 4 -> LacksCapability(tok)
    [] k = 5 -> tok.email_verified # EmailTrue
    [] k = 6 -> ~body.hasOrder \/ body.items.kind # "seq"

FailedChecks(tok, body, t) ==
  {k \in 1..6 : IF tok.verified THEN FailsCheck(k, tok, body, t) ELSE k = 1}

Earliest(S) == CHOOSE k \in S : \A j \in S : k <= j

\* the response the claim gives to check k
AnswersCheck(k) ==
  CASE k \in {1, 2} -> last.status = 401 /\ last.message # ExpiredMessage
    [] k = 3 -> last.status = 401 /\ last.message = ExpiredMessage
    [] k = 4 -> last.status = 403 /\ last.message # EmailMessage
    [] k = 5 -> last.status = 403 /\ last.message = EmailMessage
    [] k = 6 -> last.status = 400

\* C4: when a request fails more than one validation, the response is that of
\* the earliest failing check in the order claims present, subject, expiry,
\* create-capability, verified email, payload shape.
C4_FirstFailureWins ==
  (Created /\ Cardinality(FailedChecks(last.token, last.body, last.at)) > 1) =>
    AnswersCheck(Earliest(FailedChecks(last.token, last.body, last.at)))

ValidButEmail(tok, t) ==
  /\ tok.verified /\ CreateScope \in tok.scope /\ tok.sub # NoSub
  /\ tok.exp > NowEpoch(t) /\ CreateScope \in tok.permissions.val

ValidBody(body) == body.hasOrder /\ body.items.kind = "seq"

\* C6: with otherwise valid claims and payload, a verified-email claim that is
\* not the boolean true (false, absent, the string "true") is answered 403
\* with the email reason, which is not a missing-capability reason, and the
\* cache is unchanged.
C6_UnverifiedEmailForbidden ==
  (/\ Created /\ ValidButEmail(last.token, last.at) /\ ValidBody(last.body)
   /\ last.token.email_verified # EmailTrue) =>
    /\ last.status = 403
    /\ last.message = EmailMessage
    /\ last.message \notin {PermissionMessage, ScopeMessage}
    /\ CacheUntouched

\* C6: the string "true" was refused with the email reason
C6_Witness ==
  /\ Created /\ ValidButEmail(last.token, last.at) /\ ValidBody(last.body)
  /\ last.token.email_verified = "str:true"
  /\ last.status = 403 /\ last.message = EmailMessage

\* C7: when every claim check passes, the answer is 400 with the cache
\* unchanged exactly when the body has no order or order.items is not a
\* sequence; otherwise, an empty items sequence included, it is 200 and the
\* record, carrying the body's items, is appended.
C7_BodyShape ==
  (/\ Created /\ ValidButEmail(last.token, last.at)
   /\ last.token.email_verified = EmailTrue) =>
    /\ last.status = 400 <=> (~last.body.hasOrder \/ last.body.items.kind # "seq")
    /\ last.status = 400 => CacheUntouched
    /\ last.status # 400 =>
         (last.status = 200 /\ AppendedOne /\ last.order.items = last.body.items)

\* C7: an order with an empty items array was accepted and stored
C7_Witness ==
  /\ Created /\ last.status = 200
  /\ last.body.items = SeqItems(<< >>)
  /\ AppendedOne

\* C9: POST /api/orders answers 200 exactly when the request appended a
\* record: a 200 goes with one append of the returned record, and a 400, 401,
\* 403 or 500 leaves the cache as it was.
C9_SuccessIffAppend ==
  Created =>
    /\ last.status \in {200, 400, 401, 403, 500}
    /\ last.status = 200 => (AppendedOne /\ last.order # NoRecord)
    /\ last.status # 200 => (CacheUntouched /\ last.order = NoRecord)

\* C9: a request failed with 500 while the cache held a record
C9_Witness ==
  Created /\ last.status = 500 /\ last.before # EmptyCache /\ CacheUntouched

----------------------------------------------------------------------------
(* Properties of the mirror and of the merge *)

\* a step of some appendOrderToUserMetadata call: an await of it settles
MirrorSettles == \E i \in DOMAIN mirrors : mirrors'[i] # mirrors[i]

\* C8: the outcome of the mirror never affects the result of createOrder.
\* The response and the cache are fixed in the step that answers, when the
\* order's mirror call has only been started; a rejected request starts no
\* mirror call; and no later step of a mirror call, whether it succeeds or
\* fails at the credential exchange, the profile read or the profile write,
\* changes the cache or a response.
C8_MirrorNeverAffectsCreate ==
  [][/\ MirrorSettles => (ordersByUser' = ordersByUser /\ last' = last)
     /\ (CreateAnswers /\ last'.status = 200) =>
          mirrors' = Append(mirrors, [sub |-> last'.token.sub, order |-> last'.order,
                                      pc |-> "token", existing |-> << >>])
     /\ (CreateAnswers /\ last'.status # 200) => mirrors' = mirrors]_vars

\* C8: one mirror call failed, another succeeded, and the cache holds the
\* orders of both
C8_Witness ==
  /\ Len(mirrors) = 2
  /\ {mirrors[1].pc, mirrors[2].pc} = {"failed", "done"}
  /\ \A i \in DOMAIN mirrors :
       \E j \in DOMAIN ordersByUser[mirrors[i].sub] :
         ordersByUser[mirrors[i].sub][j] = mirrors[i].order

\* GET /api/orders has answered 200
Listed == last.op = "list" /\ last.status = 200

\* the identifier a mirrored entry carries: id, or order_id when id is
\* missing or empty
CarriedId(e) == IF e.id \in {NoId, EmptyId} THEN e.order_id ELSE e.id

SameFields(o, l) ==
  /\ o.id = l.id /\ o.created_at = l.created_at
  /\ o.date = l.date /\ o.time = l.time /\ o.items = l.items

\* the places of the result, and of the local records shown, with identifier x
ResultWith(x) == {i \in DOMAIN last.orders : last.orders[i].id = x}
LocalShownWith(x) ==
  {j \in DOMAIN last.local :
     /\ last.local[j].id = x
     /\ last.local[j].items.kind = "seq" /\ last.local[j].items.list # << >>}

\* a local record and a mirrored entry of the answered read share an identifier
Shared(j, k) ==
  /\ j \in DOMAIN last.local /\ k \in DOMAIN last.fetched.list
  /\ last.fetched.list[k].kind = "obj"
  /\ CarriedId(last.fetched.list[k]) = last.local[j].id

\* C10 as stated: when a mirrored entry carries the identifier of a local
\* record, under id or under order_id, the result has exactly one entry for
\* that identifier and it has the local record's created_at, date, time and
\* items.
C10_LocalWinsExactlyOne ==
  Listed =>
    \A j \in DOMAIN last.local, k \in DOMAIN last.fetched.list :
      Shared(j, k) =>
        /\ Cardinality(ResultWith(last.local[j].id)) = 1
        /\ \A i \in ResultWith(last.local[j].id) :
             SameFields(last.orders[i], last.local[j])

\* C10 amended: when a mirrored entry carries the identifier of a local
\* record, the result has no entry built from the mirrored entry: for that
\* identifier it has one entry per local record whose items is a non-empty
\* sequence, each with that record's created_at, date, time and items, and so
\* none when the local record's items is empty.
C10_LocalWinsAmended ==
  Listed =>
    \A j \in DOMAIN last.local, k \in DOMAIN last.fetched.list :
      Shared(j, k) =>
        /\ Cardinality(ResultWith(last.local[j].id))
             = Cardinality(LocalShownWith(last.local[j].id))
        /\ \A i \in ResultWith(last.local[j].id) :
             \E l \in LocalShownWith(last.local[j].id) :
               SameFields(last.orders[i], last.local[l])

\* C10: a read merged a mirrored entry that carries, under order_id, the
\* identifier of a local record with items, and showed the local record
C10_Witness ==
  /\ Listed
  /\ \E j \in DOMAIN last.local, k \in DOMAIN last.fetched.list :
       /\ Shared(j, k)
       /\ last.fetched.list[k].id = NoId
       /\ last.fetched.list[k].items # last.local[j].items
       /\ LocalShownWith(last.local[j].id) = {j}
       /\ \E i \in DOMAIN last.orders : SameFields(last.orders[i], last.local[j])

----------------------------------------------------------------------------
(* Properties of listOrders *)

\* the union of the two sources of the answered read, one record per
\* identifier a mirrored entry adds
Merged == MergeAll(last.local, last.fetched.list)

\* items is a non-empty sequence
Displayable(o) == o.items.kind = "seq" /\ o.items.list # << >>

\* the valid records of the union
ValidRecords == {i \in DOMAIN Merged : Displayable(Merged[i])}

\* order_number counts from the last place of the result upwards, without gap
NumberedFromOldest ==
  \A i \in DOMAIN last.orders :
    last.orders[i].order_number = Len(last.orders) - i + 1

\* C11: when the valid records of the union are N records with pairwise
\* distinct created_at, the result is these N records sorted by created_at
\* descending and numbered 1..N with 1 on the oldest and N on the newest.
C11_SortedAndNumbered ==
  (/\ Listed
   /\ \A i \in ValidRecords : Merged[i].created_at # NoTime
   /\ \A i, j \in ValidRecords :
        i # j => Merged[i].created_at # Merged[j].created_at) =>
    /\ Len(last.orders) = Cardinality(ValidRecords)
    /\ \A i, j \in DOMAIN last.orders :
         i < j => last.orders[i].created_at > last.orders[j].created_at
    /\ NumberedFromOldest

\* C12: a merged record whose items is missing, not a sequence or empty is
\* not in the result and takes no order_number: the result has one entry per
\* valid record of the union, each with items, numbered 1..N without gap.
C12_FilteredTakeNoNumber ==
  Listed =>
    /\ \A i \in DOMAIN last.orders : Displayable(last.orders[i])
    /\ Len(last.orders) = Cardinality(ValidRecords)
    /\ NumberedFromOldest
    /\ {last.orders[i].order_number : i \in DOMAIN last.orders}
         = 1..Cardinality(ValidRecords)

\* C12: a read hid a record without items that lay between two valid ones
C12_Witness ==
  /\ Listed
  /\ Len(last.orders) = 2
  /\ \E i \in DOMAIN Merged : ~Displayable(Merged[i]) /\ 1 < i /\ i < Len(Merged)

\* C13: no record of a result has an item whose quantity is not positive.
C13_PositiveQuantities ==
  Listed =>
    \A i \in DOMAIN last.orders :
      \A k \in DOMAIN last.orders[i].items.list :
        last.orders[i].items.list[k].quantity > 0

\* the local records of the answered read that have items
ValidLocal == {j \in DOMAIN last.local : Displayable(last.local[j])}

\* GET /api/orders has answered after its fetch from the Profile Store failed
FetchFailed == last.op = "list" /\ last.fetch \in {"token", "get"}

\* C14: if the fetch from the Profile Store fails, at the credential exchange
\* or at the profile read, listOrders answers 200 with exactly the subject's
\* local valid records, newest first and numbered from the oldest, as if the
\* mirrored set were empty.
C14_FetchFailureIsolated ==
  FetchFailed =>
    /\ last.status = 200
    /\ Len(last.orders) = Cardinality(ValidLocal)
    /\ \A j \in ValidLocal :
         \E i \in DOMAIN last.orders : SameFields(last.orders[i], last.local[j])
    /\ \A i \in DOMAIN last.orders :
         \E j \in ValidLocal : SameFields(last.orders[i], last.local[j])
    /\ \A i, j \in DOMAIN last.orders :
         i < j => last.orders[i].created_at >= last.orders[j].created_at
    /\ NumberedFromOldest

\* C14: the profile read failed while the profile held mirrored entries, and
\* the two local orders were returned
C14_Witness ==
  /\ FetchFailed
  /\ last.fetch = "get"
  /\ profile[last.token.sub] \in ExternalHistories
  /\ Len(last.orders) = 2
  /\ last.status = 200

\* C15: whatever the Profile Store returns as order_history, a read that got
\* its answer from the Profile Store responds 200, never 500.
C15_MalformedNeverFails ==
  (last.op = "list" /\ last.fetch = "ok") => last.status = 200

\* C16: for a subject with no local orders and no mirrored orders listOrders
\* answers 200 with an empty sequence.
C16_EmptyIsNotAnError ==
  (/\ last.op = "list" /\ last.fetch # "none"
   /\ last.local = << >>
   /\ profile[last.token.sub] \in {NoHistory, SeqHistory(<< >>)}) =>
    (last.status = 200 /\ last.orders = << >>)

\* C16: a subject whose profile has no order_history field and whose cache
\* is empty read an empty list from the Profile Store
C16_Witness ==
  /\ Listed /\ last.fetch = "ok"
  /\ ordersByUser[last.token.sub] = << >>
  /\ profile[last.token.sub] = NoHistory
  /\ last.orders = << >>

\* C17: GET /api/orders with a verified token that has the read capability
\* and no subject answers 400, missing subject, in the step that receives
\* it: no snapshot of the cache is taken, no fetch from the Profile Store is
\* started, and cache and profile are unchanged.
C17_MissingSubjectBadRequest ==
  [][(/\ last.op = "none" /\ last'.op = "list"
      /\ last'.token.verified /\ ReadScope \in last'.token.scope
      /\ last'.token.sub = NoSub) =>
       /\ last'.status = 400
       /\ last'.message = "Missing user identifier in token"
       /\ last'.local = << >> /\ last'.fetch = "none"
       /\ reads' = reads
       /\ ordersByUser' = ordersByUser /\ profile' = profile]_vars

\* C17: a token without subject was refused while the cache held an order
\* and no read was in flight
C17_Witness ==
  /\ last.op = "list" /\ last.status = 400
  /\ last.token.verified /\ last.token.sub = NoSub
  /\ ordersByUser # EmptyCache
  /\ reads = << >>

----------------------------------------------------------------------------
(* Properties of concurrent mirror-appends and of reads after writes *)

\* the profile write of mirror call i succeeds in this step
PatchSucceeds(i) == mirrors[i].pc = "patch" /\ mirrors'[i].pc = "done"

\* C18: a mirror-append writes back the whole list it read earlier with its
\* own order appended, whatever was written to the profile since; so two
\* mirror-appends of one subject that both read before either writes both
\* succeed and leave a list with only one of the two orders.
C18_WholeListWrittenBack ==
  [][\A i \in DOMAIN mirrors :
       PatchSucceeds(i) =>
         /\ profile'[mirrors[i].sub] = SeqHistory(mirrors[i].existing)
         /\ mirrors[i].existing[Len(mirrors[i].existing)] = EntryOf(mirrors[i].order)]_vars

\* C18: both mirror-appends of a subject succeeded, both orders are in the
\* cache, and the mirrored list holds one entry
C18_Witness ==
  \E i, j \in DOMAIN mirrors :
    /\ i # j
    /\ mirrors[i].sub = mirrors[j].sub
    /\ mirrors[i].pc = "done" /\ mirrors[j].pc = "done"
    /\ mirrors[i].order # mirrors[j].order
    /\ Len(ordersByUser[mirrors[i].sub]) = 2
    /\ profile[mirrors[i].sub].kind = "seq"
    /\ Len(profile[mirrors[i].sub].list) = 1

\* C19: every order with non-empty items that the cache held when a
\* listOrders of its subject began is in the result of that listOrders, with
\* its own id, created_at and items, whatever became of its mirror-append
\* and whether or not the fetch of the read succeeded.
C19_AcceptedOrdersVisible ==
  (last.op = "list" /\ last.fetch # "none") =>
    \A j \in ValidLocal :
      \E i \in DOMAIN last.orders :
        /\ last.orders[i].id = last.local[j].id
        /\ last.orders[i].created_at = last.local[j].created_at
        /\ last.orders[i].items = last.local[j].items

\* the texts of the errors thrown inside the two handlers
InternalErrorTexts ==
  {MergeError(NotSeqHistory), MergeError(SeqHistory(<<NullEntry>>)), FetchError,
   "Cannot read properties of null (reading 'includes')"}

\* C20: a response with status 500 carries a generic message, never the text
\* of the internal error.
C20_GenericInternalError ==
  last.status = 500 => last.message \notin InternalErrorTexts

----------------------------------------------------------------------------
(* Frame properties *)

\* a step of a GET /api/orders request: it is received, or one of its awaits
\* settles
ListSteps ==
  \/ reads' # reads /\ reads' # << >>
  \/ last.op = "none" /\ last'.op = "list"

\* C21: a listOrders request, whatever its outcome and whatever the Profile
\* Store returns, leaves the cached list of every subject unchanged and
\* writes nothing to the Profile Store; the response records a cache equal
\* to the one the request found.
C21_ListChangesNothing ==
  [][ListSteps =>
       /\ ordersByUser' = ordersByUser
       /\ profile' = profile
       /\ mirrors' = mirrors
       /\ last'.op = "list" => last'.before = ordersByUser]_vars

\* C21: a read answered on malformed mirrored data while the cache held two
\* orders placed at different times, and the cached list is as it was
C21_Witness ==
  /\ last.op = "list" /\ last.fetch = "ok"
  /\ Len(last.local) = 2
  /\ last.local[1].created_at < last.local[2].created_at
  /\ ordersByUser[last.token.sub] = last.local
  /\ last.fetched \in MalformedHistories

----------------------------------------------------------------------------
(* Properties of the mirror invocations *)

\* how far a mirror-append has got
Progress(pc) ==
  CASE pc = "token" -> 1
    [] pc = "get" -> 2
    [] pc = "patch" -> 3
    [] pc \in {"done", "failed"} -> 4

\* the orders for which a mirror-append was started, with their subjects
Mirrored == {<<mirrors[i].sub, mirrors[i].order>> : i \in DOMAIN mirrors}

\* C23: the mirror-append is invoked exactly once for each accepted order,
\* after the order is in the cache, never for a rejected request and never
\* again after a failure: the invocations started are as many as the orders
\* accepted, each is for an order the cache holds, an invocation only moves
\* forward and stays where it ended, and the profile is written only by the
\* one write of one invocation.
C23_MirrorOncePerOrder ==
  [][/\ Len(mirrors) = Cardinality(Held)
     /\ Len(mirrors') = Cardinality(Held')
     /\ Mirrored' = {<<p[1], ordersByUser'[p[1]][p[2]]>> : p \in Held'}
     /\ (CreateAnswers /\ last'.status # 200) => mirrors' = mirrors
     /\ \A i \in DOMAIN mirrors :
          /\ mirrors'[i].sub = mirrors[i].sub /\ mirrors'[i].order = mirrors[i].order
          /\ mirrors'[i].pc # mirrors[i].pc =>
               Progress(mirrors'[i].pc) > Progress(mirrors[i].pc)
     /\ profile' # profile =>
          Cardinality({i \in DOMAIN mirrors : PatchSucceeds(i)}) = 1]_vars

\* C23: the first mirror-append failed before it wrote, the second is about
\* to write, and a rejected request has just been answered
C23_Witness ==
  /\ Len(mirrors) = 2
  /\ mirrors[1].pc = "failed" /\ mirrors[2].pc = "patch"
  /\ mirrors[1].sub = mirrors[2].sub
  /\ profile[mirrors[1].sub] = NoHistory
  /\ last.op = "create" /\ last.status # 200

----------------------------------------------------------------------------
(* Properties of identifiers, ties and numbers in listOrders *)

\* C24: no listOrders result has two entries with the same identifier,
\* duplicates inside the local list included.
C24_NoDuplicateIds ==
  Listed =>
    \A i, j \in DOMAIN last.orders :
      i # j => last.orders[i].id # last.orders[j].id

\* the order_number the result gives to the record with identifier x
NumbersOf(x) ==
  {last.orders[i].order_number : i \in {k \in DOMAIN last.orders : last.orders[k].id = x}}

\* C25: when two valid records have equal created_at, the one that comes
\* earlier in the input (earlier local insertion, or local before mirrored)
\* has the smaller order_number.
C25_TiesKeepInputOrder ==
  (Listed /\ \A i \in DOMAIN Merged : Merged[i].created_at # NoTime) =>
    \A i, j \in ValidRecords :
      (i < j /\ Merged[i].created_at = Merged[j].created_at) =>
        \A m \in NumbersOf(Merged[i].id), n \in NumbersOf(Merged[j].id) : m < n

\* the results a read of subject u can return from a cache and a mirrored list
ReadsOf(cache, u, fetched) == ListOutcomes(LocalOrders(cache, u), fetched)

\* what a read of subject u can fetch: nothing, or the mirrored list
Fetchable(u) == {SeqHistory(<< >>), OrEmpty(profile[u])}

\* C26: an order that listOrders returns with order_number k is returned
\* with the same k by a listOrders after a further order was accepted, the
\* new order being no older than the existing ones and every mirrored entry
\* being a copy of a cached record.
C26_NumbersStable ==
  [][(CreateAnswers /\ last'.status = 200) =>
       \A f \in Fetchable(last'.token.sub) :
         \A b \in ReadsOf(ordersByUser, last'.token.sub, f),
            a \in ReadsOf(ordersByUser', last'.token.sub, f) :
           \A i \in DOMAIN b :
             \E j \in DOMAIN a :
               a[j].id = b[i].id /\ a[j].order_number = b[i].order_number]_vars

----------------------------------------------------------------------------
(* Isolation of subjects *)

\* GET /api/orders answers 200 in this step
ListAnswers == last.op = "none" /\ last'.op = "list" /\ last'.status = 200

\* record o is a record of subject u's cached list or of u's mirrored list
TakenFrom(o, u) ==
  \/ \E j \in DOMAIN ordersByUser[u] : SameFields(o, ordersByUser[u][j])
  \/ \E j \in DOMAIN OrEmpty(profile[u]).list :
       SameFields(o, Normalize(OrEmpty(profile[u]).list[j]))

\* C27: a createOrder for subject A leaves the cached list and the profile of
\* every other subject unchanged and starts a mirror-append for A only, whose
\* write changes A's profile only; a listOrders for A returns only records
\* of A's cached list or A's mirrored list, none with the id of a record of
\* another subject.
C27_SubjectsIsolated ==
  [][/\ (CreateAnswers /\ last'.status = 200) =>
          /\ \A u \in Subjects \ {last'.token.sub} : ordersByUser'[u] = ordersByUser[u]
          /\ profile' = profile
          /\ mirrors'[Len(mirrors')].sub = last'.token.sub
     /\ \A i \in DOMAIN mirrors :
          PatchSucceeds(i) =>
            \A u \in Subjects \ {mirrors[i].sub} : profile'[u] = profile[u]
     /\ ListAnswers =>
          \A k \in DOMAIN last'.orders :
            /\ TakenFrom(last'.orders[k], last'.token.sub)
            /\ \A u \in Subjects \ {last'.token.sub} :
                 \A j \in DOMAIN ordersByUser[u] :
                   ordersByUser[u][j].id # last'.orders[k].id]_vars

\* C27: a subject read its one order while another subject had an order in
\* the cache and in its profile
C27_Witness ==
  /\ Listed
  /\ Len(last.orders) = 1
  /\ \E u \in Subjects \ {last.token.sub} :
       /\ \E j \in DOMAIN ordersByUser[u] : ordersByUser[u][j].items.list # << >>
       /\ profile[u].kind = "seq"

----------------------------------------------------------------------------
(* Reads after the cache is lost *)

\* the mirrored entries of the answered read that have non-empty items
MirroredValid ==
  {k \in DOMAIN last.fetched.list : Displayable(last.fetched.list[k])}

\* C28: when the cache holds no entry for the subject, listOrders answers
\* with exactly the mirrored entries that have non-empty items, one per
\* distinct identifier, sorted by created_at descending and numbered 1..N
\* from the oldest.
C28_MirrorOnlyRead ==
  (/\ last.op = "list" /\ last.fetch = "ok"
   /\ last.local = << >> /\ ordersByUser[last.token.sub] = << >>) =>
    /\ last.status = 200
    /\ \A i \in DOMAIN last.orders :
         \E k \in MirroredValid :
           SameFields(last.orders[i], Normalize(last.fetched.list[k]))
    /\ \A k \in MirroredValid :
         \E i \in DOMAIN last.orders :
           last.orders[i].id = CarriedId(last.fetched.list[k])
    /\ \A i, j \in DOMAIN last.orders :
         i # j => last.orders[i].id # last.orders[j].id
    /\ \A i, j \in DOMAIN last.orders :
         i < j => last.orders[i].created_at >= last.orders[j].created_at
    /\ NumberedFromOldest

----------------------------------------------------------------------------
(* Properties of the client *)

\* a requireAuth call went on after its await
RequireAuthWentOn == Len(client'.pending) < Len(client.pending)

\* what running fn may change
FnEffects(c) == <<c.panel, c.posts, c.fetches, c.errors>>

\* C22: requireAuth(fn, targetUrl) runs fn only when the identity client
\* reports the user as authenticated; otherwise fn is not run and the login
\* redirect is started with targetUrl as application state. So while the
\* user is unauthenticated the profile panel is not shown and no request of
\* placeOrder or fetchOrders has been sent.
C22_RequireAuthGuards ==
  /\ [][RequireAuthWentOn =>
         /\ client'.lastCall.auth = client.authenticated
         /\ client.authenticated => client'.redirect = client.redirect
         /\ ~client.authenticated =>
              /\ FnEffects(client') = FnEffects(client)
              /\ client'.redirect = [started |-> TRUE,
                                     appState |-> client'.lastCall.targetUrl]]_vars
  /\ [](~client.authenticated =>
         /\ client.panel # "content-profile"
         /\ client.posts = 0 /\ client.fetches = 0)

\* C22: an unauthenticated user with a pizza selected clicked place-order
\* and was sent to the login page with "/" as application state
C22_Witness ==
  /\ client.lastCall = [fn |-> "placeOrder", targetUrl |-> "/", auth |-> FALSE,
                        ran |-> FALSE]
  /\ client.qty > 0
  /\ client.phase = "left"
  /\ client.redirect.appState = "/"
  /\ client.posts = 0

\* C29: once window.onload has completed and the user is authenticated, a
\* click on place-order reaches placeOrder, the quantity buttons can update
\* the total, and window.fetchOrders is defined, whether the user was
\* authenticated when the page loaded or through the redirect callback.
C29_HandlersInPlace ==
  (client.phase = "loaded" /\ client.authenticated) =>
    /\ client.helpers
    /\ client.placeListener \/ (client.bodyListener /\ client.placeInGrid)
    /\ client.fetchOrders

====
